---- MODULE Spec2Model ----
(***************************************************************************)
(* Model of the entity/component world of src/src/world.rs (crate srecs).  *)
(*                                                                         *)
(* The World struct is the state; every public method that takes &mut self *)
(* is an action, every method that takes &self is an operator evaluated on *)
(* the current state.  The value a &mut self method returns is an operator *)
(* `<method>_ret` evaluated on the state the call starts from.  Rust       *)
(* indices start at 0, TLA+ sequences at 1, so the element `v[i]` of a Vec *)
(* is `v[i + 1]` here.  An Option<T> is the empty sequence (None) or a     *)
(* one-element sequence (Some).  The history variables record what the     *)
(* callers passed and were given; no operation reads them.  A method that  *)
(* loops (the walk up the parent chain) is also modelled step by step, one *)
(* action per iteration, in the variable `walk`.                           *)
(***************************************************************************)
EXTENDS Integers, Sequences, FiniteSets, TLC

\* ---------------------------------------------------------------- bounds
\* Number of calls that change the world in the behaviours explored: of a
\* world with components of one type, and of a world with components of two.
MaxSteps == 7
MaxTypedSteps == 6
\* The same for the behaviours in which the last call is recorded, and for
\* the ones in which the walk up the parent chain is taken step by step.
MaxTracedSteps == 5
MaxWalkSteps == 5

\* ------------------------------------------------------- values and types
None == << >>
Some(v) == << v >>

\* struct Entity { idx, uuid }
Entity(i, u) == [idx |-> i, uuid |-> u]

\* struct Position { x, y } of the tests; the values the tests attach.
Position(x, y) == [x |-> x, y |-> y]
PositionValues == { Position(10, 12), Position(5, 7) }

\* struct Parent(pub Entity)
Parent(e) == [parent |-> e]

\* The component types (the type key of the AnyMap).
CompTypes == { "Position", "Parent" }

\* AnyMap::new(): no value under any type.
EmptyAnyMap == [ty \in CompTypes |-> None]

\* HashMap::new()
EmptyMap == [k \in {} |-> 0]

\* HashMap::insert(k, v): upsert.
MapInsert(m, k, v) == [x \in (DOMAIN m) \cup {k} |-> IF x = k THEN v ELSE m[x]]

\* HashMap::remove(k)
MapRemove(m, k) == [x \in (DOMAIN m) \ {k} |-> m[x]]

\* HashMap::get(k)
MapGet(m, k) == IF k \in DOMAIN m THEN Some(m[k]) ELSE None

\* Vec::get(i)
VecGet(v, i) == IF i < Len(v) THEN Some(v[i + 1]) ELSE None

\* Vec::resize(n, 0) as used by add_entity (only ever grows).
Resize(v, n) == IF Len(v) < n THEN v \o [k \in 1..(n - Len(v)) |-> 0] ELSE v

\* v[i] = x
VecSet(v, i, x) == [v EXCEPT ![i + 1] = x]

\* ------------------------------------------------------------------ state
VARIABLES
    next_idx,       \* World::next_idx
    next_uuid,      \* World::next_uuid
    active,         \* World::active: uuid per idx, 0 = inactive
    reusable_idxs,  \* World::reusable_idxs: stack of free idxs
    components,     \* World::components: one AnyMap per idx
    parents,        \* World::parents: HashMap<Entity, Entity>
    ent_added,      \* World::ent_added: idx -> uuid
    ent_remove,     \* World::ent_remove: idx -> uuid
    ent_changed,    \* World::ent_changed: idx -> uuid
    issued,         \* history: the entities returned by add_entity, in order
    fresh,          \* history: entities returned by add_entity since the last confirm_changes
    slated,         \* history: valid entities passed to remove_entity since the last confirm_changes
    condemned,      \* history: entities of slated at some earlier confirm_changes
    touched,        \* history: entities whose components the caller changed since the last confirm_changes
    reaped,         \* history: the entities confirm_changes removed, with what they had
    last,           \* history: the last call, with its arguments, what it returned and the world before it
    walk,           \* has_component / get_component in progress: position in the parent chain
    steps           \* history: number of calls so far that changed the world

world == << next_idx, next_uuid, active, reusable_idxs, components, parents,
            ent_added, ent_remove, ent_changed >>
history == << issued, fresh, slated, condemned, touched, reaped >>
called == << world, history >>
vars == << next_idx, next_uuid, active, reusable_idxs, components, parents,
           ent_added, ent_remove, ent_changed, issued, fresh, slated, condemned,
           touched, reaped, last, walk, steps >>

\* No call made yet; no walk in progress.
NoCall == [op |-> "new"]
Idle == [pc |-> "idle"]

\* World::new()
Init ==
    /\ next_idx = 0
    /\ next_uuid = 1
    /\ active = << >>
    /\ reusable_idxs = << >>
    /\ components = << >>
    /\ parents = EmptyMap
    /\ ent_added = EmptyMap
    /\ ent_remove = EmptyMap
    /\ ent_changed = EmptyMap
    /\ issued = << >>
    /\ fresh = {}
    /\ slated = {}
    /\ condemned = {}
    /\ touched = {}
    /\ reaped = {}
    /\ last = NoCall
    /\ walk = Idle
    /\ steps = 0

\* ---------------------------------------------------------------- queries
\* World::is_valid_entity on an explicit slot table.
IsValidIn(act, entity) ==
    LET got == VecGet(act, entity.idx)
    IN IF got # None THEN got[1] # 0 /\ entity.uuid = got[1] ELSE FALSE

\* World::is_valid_entity
is_valid_entity(entity) == IsValidIn(active, entity)

\* World::get_uuid
get_uuid(idx) ==
    LET got == VecGet(active, idx)
    IN IF got # None THEN got[1] ELSE 0

\* World::get_parent
get_parent(entity) ==
    IF is_valid_entity(entity) THEN MapGet(parents, entity) ELSE None

\* World::has_component: the direct check, then the walk up the parent chain.
\* The loop has no exit on a chain that closes on itself without a `ty`:
\* `seen` holds the entities the loop has already visited, and a second visit
\* means the loop repeats forever (Diverges).
Diverges == << "diverges", "diverges" >>

RECURSIVE has_component_loop(_, _, _)
has_component_loop(ty, cur_ent, seen) ==
    IF cur_ent \in seen THEN Diverges
    ELSE IF is_valid_entity(cur_ent)
         THEN IF components[cur_ent.idx + 1][ty] # None
              THEN TRUE
              ELSE IF get_parent(cur_ent) # None
                   THEN has_component_loop(ty, get_parent(cur_ent)[1], seen \cup {cur_ent})
                   ELSE FALSE
         ELSE FALSE

has_component(ty, entity) ==
    IF is_valid_entity(entity)
    THEN IF components[entity.idx + 1][ty] # None
         THEN TRUE
         ELSE has_component_loop(ty, entity, {})
    ELSE FALSE

\* World::get_component: same walk, returning the value found.
RECURSIVE get_component_loop(_, _, _)
get_component_loop(ty, cur_ent, seen) ==
    IF cur_ent \in seen THEN Diverges
    ELSE IF is_valid_entity(cur_ent)
         THEN IF components[cur_ent.idx + 1][ty] # None
              THEN components[cur_ent.idx + 1][ty]
              ELSE IF get_parent(cur_ent) # None
                   THEN get_component_loop(ty, get_parent(cur_ent)[1], seen \cup {cur_ent})
                   ELSE None
         ELSE None

\* Mutant of get_component: the entity's own component only, no walk.
M_get_component_direct(ty, entity) ==
    IF is_valid_entity(entity) THEN components[entity.idx + 1][ty] ELSE None

get_component(ty, entity) ==
    IF is_valid_entity(entity)
    THEN IF components[entity.idx + 1][ty] # None
         THEN components[entity.idx + 1][ty]
         ELSE get_component_loop(ty, entity, {})
    ELSE None

\* Mutant of list_entities_from: the inactive slots are not filtered out.
RECURSIVE M_list_entities_from_keeps_inactive(_)
M_list_entities_from_keeps_inactive(idx) ==
    IF idx >= Len(active) THEN << >>
    ELSE LET uuid == active[idx + 1]
             keep == ~(MapGet(ent_added, idx) # None /\ uuid = MapGet(ent_added, idx)[1])
         IN (IF keep THEN << Entity(idx, uuid) >> ELSE << >>)
               \o M_list_entities_from_keeps_inactive(idx + 1)

\* World::list_entities: the slots in index order, without the inactive ones
\* and without the ones whose uuid is the one recorded in ent_added.
RECURSIVE list_entities_from(_)
list_entities_from(idx) ==
    IF idx >= Len(active) THEN << >>
    ELSE LET uuid == active[idx + 1]
             keep == /\ uuid # 0
                     /\ ~(MapGet(ent_added, idx) # None /\ uuid = MapGet(ent_added, idx)[1])
         IN (IF keep THEN << Entity(idx, uuid) >> ELSE << >>) \o list_entities_from(idx + 1)

\* Mutant of list_entities: every active slot, pending additions included.
M_list_entities_all ==
    SelectSeq([k \in 1..Len(active) |-> Entity(k - 1, active[k])], LAMBDA e : e.uuid # 0)

list_entities == list_entities_from(0)

\* World::list_additions / list_removals / list_changes (order of a HashMap
\* iteration is unspecified: the result is modelled as the set of its items).
list_additions == { Entity(idx, ent_added[idx]) : idx \in DOMAIN ent_added }
list_removals == { Entity(idx, ent_remove[idx]) : idx \in DOMAIN ent_remove }
list_changes == { Entity(idx, ent_changed[idx]) : idx \in DOMAIN ent_changed }

\* EntityIterator, created by World::iterator with curr = 0: next() skips the
\* inactive slots and the slots whose index is a key of ent_added, and yields
\* the others in index order until the end of the slot table.  The sequence
\* below is what the iterator yields when run to its end.
RECURSIVE iterator_from(_)
iterator_from(curr) ==
    IF curr >= Len(active) THEN << >>
    ELSE LET uuid == active[curr + 1]
             skip == uuid = 0 \/ curr \in DOMAIN ent_added
         IN (IF skip THEN << >> ELSE << Entity(curr, uuid) >>) \o iterator_from(curr + 1)

iterator == iterator_from(0)

Range(s) == { s[k] : k \in 1..Len(s) }

\* ------------------------------------------------------------- call inputs
\* Entity values a caller can pass: every entity add_entity has returned
\* (still valid, or stale), and forged ones: uuid 0, a uuid never issued, and
\* an idx beyond the slot table.
Forged == { Entity(0, 0), Entity(0, MaxSteps + 1), Entity(MaxSteps + 1, 1) }
EntityArgs == Range(issued) \cup Forged

\* The values of a component type a caller can attach.
ValuesOf(ty) ==
    IF ty = "Position" THEN PositionValues ELSE { Parent(e) : e \in Range(issued) }

\* ---------------------------------------------------------------- actions
\* Mutant of add_entity_idx: the front of reusable_idxs instead of its top.
M_add_entity_idx_front ==
    IF reusable_idxs # << >> THEN Head(reusable_idxs) ELSE next_idx

\* World::add_entity, the idx it takes: the top of reusable_idxs (pop), or
\* next_idx when there is none.
add_entity_idx ==
    IF reusable_idxs # << >> THEN reusable_idxs[Len(reusable_idxs)] ELSE next_idx

\* Mutant of add_entity_uuid: the uuid derived from the slot counter.
M_add_entity_uuid_from_idx == next_idx + 1

\* World::add_entity, the uuid it takes: the counter next_uuid.
add_entity_uuid == next_uuid

\* World::add_entity, the entity it returns.
add_entity_ret == Entity(add_entity_idx, add_entity_uuid)

\* World::add_entity
add_entity ==
    /\ LET reuse == reusable_idxs # << >>
           idx == add_entity_idx
           uuid == add_entity_uuid
       IN /\ reusable_idxs' = IF reuse THEN SubSeq(reusable_idxs, 1, Len(reusable_idxs) - 1)
                                       ELSE reusable_idxs
          /\ next_idx' = IF reuse THEN next_idx ELSE next_idx + 1
          /\ components' = IF reuse THEN components ELSE Append(components, EmptyAnyMap)
          /\ next_uuid' = next_uuid + 1
          /\ active' = VecSet(Resize(active, uuid + 1), idx, uuid)
          /\ ent_added' = MapInsert(ent_added, idx, uuid)
          /\ issued' = Append(issued, add_entity_ret)
          /\ fresh' = fresh \cup { add_entity_ret }
    /\ UNCHANGED << parents, ent_remove, ent_changed, slated, condemned >>

\* Mutant of remove_entity: the removal is also done at once (as in a world
\* without staging), not at the next confirm_changes.
M_remove_entity_eager(entity) ==
    /\ ent_remove' = MapInsert(ent_remove, entity.idx, entity.uuid)
    /\ slated' = IF is_valid_entity(entity) THEN slated \cup { entity } ELSE slated
    /\ IF is_valid_entity(entity)
       THEN /\ active' = VecSet(active, entity.idx, 0)
            /\ reusable_idxs' = Append(reusable_idxs, entity.idx)
            /\ components' = VecSet(components, entity.idx, EmptyAnyMap)
       ELSE UNCHANGED << active, reusable_idxs, components >>
    /\ UNCHANGED << next_idx, next_uuid, parents, ent_added, ent_changed, issued, fresh,
                    condemned >>

\* World::remove_entity
remove_entity(entity) ==
    /\ ent_remove' = MapInsert(ent_remove, entity.idx, entity.uuid)
    /\ slated' = IF is_valid_entity(entity) THEN slated \cup { entity } ELSE slated
    /\ UNCHANGED << next_idx, next_uuid, active, reusable_idxs, components, parents,
                    ent_added, ent_changed, issued, fresh, condemned >>

\* Mutant of remove_loop: the idx of every entry is pushed on the free list,
\* also when the entry does not name the occupant of the slot.
RECURSIVE M_remove_loop_push_always(_, _)
M_remove_loop_push_always(order, w) ==
    IF order = << >> THEN w
    ELSE LET idx == Head(order)
             uuid == ent_remove[idx]
         IN IF IsValidIn(w.active, Entity(idx, uuid))
            THEN M_remove_loop_push_always(Tail(order),
                     [active |-> VecSet(w.active, idx, 0),
                      reusable_idxs |-> Append(w.reusable_idxs, idx),
                      components |-> VecSet(w.components, idx, EmptyAnyMap)])
            ELSE M_remove_loop_push_always(Tail(order),
                     [w EXCEPT !.reusable_idxs = Append(w.reusable_idxs, idx)])

\* Mutant of remove_loop: an entry removes whatever entity is in its slot.
RECURSIVE M_remove_loop_by_slot(_, _)
M_remove_loop_by_slot(order, w) ==
    IF order = << >> THEN w
    ELSE LET idx == Head(order)
         IN IF idx < Len(w.components) /\ w.active[idx + 1] # 0
            THEN M_remove_loop_by_slot(Tail(order),
                     [active |-> VecSet(w.active, idx, 0),
                      reusable_idxs |-> Append(w.reusable_idxs, idx),
                      components |-> VecSet(w.components, idx, EmptyAnyMap)])
            ELSE M_remove_loop_by_slot(Tail(order), w)

\* Mutant of remove_loop: the idx of a removed entity is not pushed on the
\* free list.
RECURSIVE M_remove_loop_no_push(_, _)
M_remove_loop_no_push(order, w) ==
    IF order = << >> THEN w
    ELSE LET idx == Head(order)
             uuid == ent_remove[idx]
         IN IF IsValidIn(w.active, Entity(idx, uuid))
            THEN M_remove_loop_no_push(Tail(order),
                     [active |-> VecSet(w.active, idx, 0),
                      reusable_idxs |-> w.reusable_idxs,
                      components |-> VecSet(w.components, idx, EmptyAnyMap)])
            ELSE M_remove_loop_no_push(Tail(order), w)

\* Mutant of remove_loop: the components of a removed entity are not cleared.
RECURSIVE M_remove_loop_keeps_components(_, _)
M_remove_loop_keeps_components(order, w) ==
    IF order = << >> THEN w
    ELSE LET idx == Head(order)
             uuid == ent_remove[idx]
         IN IF IsValidIn(w.active, Entity(idx, uuid))
            THEN M_remove_loop_keeps_components(Tail(order),
                     [active |-> VecSet(w.active, idx, 0),
                      reusable_idxs |-> Append(w.reusable_idxs, idx),
                      components |-> w.components])
            ELSE M_remove_loop_keeps_components(Tail(order), w)

\* The first loop of World::confirm_changes, over the entries of ent_remove in
\* the order `order` in which the HashMap yields its keys: a slot whose
\* occupant is the entity of the entry is deactivated, pushed on the free list
\* and its components are cleared.  `w` holds active, reusable_idxs, components.
RECURSIVE remove_loop(_, _)
remove_loop(order, w) ==
    IF order = << >> THEN w
    ELSE LET idx == Head(order)
             uuid == ent_remove[idx]
         IN IF IsValidIn(w.active, Entity(idx, uuid))
            THEN remove_loop(Tail(order),
                     [active |-> VecSet(w.active, idx, 0),
                      reusable_idxs |-> Append(w.reusable_idxs, idx),
                      components |-> VecSet(w.components, idx, EmptyAnyMap)])
            ELSE remove_loop(Tail(order), w)

\* Mutant of prune_parents: only the child of a link is checked.
M_prune_parents_child_only(act) ==
    [child \in { c \in DOMAIN parents : IsValidIn(act, c) } |-> parents[child]]

\* Mutant of prune_parents: no link is removed.
M_prune_parents_none(act) == parents

\* The second loop of World::confirm_changes: the parent links that survive.
prune_parents(act) ==
    [child \in { c \in DOMAIN parents : IsValidIn(act, c) /\ IsValidIn(act, parents[c]) }
        |-> parents[child]]

\* The orders in which a HashMap can yield the keys `keys`.
IterationOrders(keys) ==
    { order \in [1..Cardinality(keys) -> keys] :
        \A i, j \in 1..Cardinality(keys) : i # j => order[i] # order[j] }

\* Mutant of confirm_changes: a staged removal that was not applied stays in
\* ent_remove.
M_confirm_changes_keeps_unapplied ==
    /\ \E order \in IterationOrders(DOMAIN ent_remove) :
          LET w == remove_loop(order, [active |-> active,
                                       reusable_idxs |-> reusable_idxs,
                                       components |-> components])
          IN /\ active' = w.active
             /\ reusable_idxs' = w.reusable_idxs
             /\ components' = w.components
             /\ parents' = prune_parents(w.active)
    /\ ent_added' = EmptyMap
    /\ ent_remove' = [idx \in { i \in DOMAIN ent_remove :
                                  ~is_valid_entity(Entity(i, ent_remove[i])) }
                         |-> ent_remove[idx]]
    /\ ent_changed' = EmptyMap
    /\ fresh' = {}
    /\ condemned' = condemned \cup slated
    /\ slated' = {}
    /\ UNCHANGED << next_idx, next_uuid, issued >>

\* World::confirm_changes
confirm_changes ==
    /\ \E order \in IterationOrders(DOMAIN ent_remove) :
          LET w == remove_loop(order, [active |-> active,
                                       reusable_idxs |-> reusable_idxs,
                                       components |-> components])
          IN /\ active' = w.active
             /\ reusable_idxs' = w.reusable_idxs
             /\ components' = w.components
             /\ parents' = prune_parents(w.active)
    /\ ent_added' = EmptyMap
    /\ ent_remove' = EmptyMap
    /\ ent_changed' = EmptyMap
    /\ fresh' = {}
    /\ condemned' = condemned \cup slated
    /\ slated' = {}
    /\ UNCHANGED << next_idx, next_uuid, issued >>

\* Mutant of add_component_ret: the value get_component finds, which may be an
\* ancestor's.
M_add_component_ret_inherited(entity, ty) ==
    IF get_component(ty, entity) = Diverges THEN None ELSE get_component(ty, entity)

\* Mutant of add_component: the slot is checked to be in use, not to hold
\* the entity given.
M_add_component_by_slot(entity, ty, component) ==
    /\ IF get_uuid(entity.idx) # 0 /\ entity.idx < Len(components)
       THEN /\ ent_changed' = MapInsert(ent_changed, entity.idx, entity.uuid)
            /\ components' = [components EXCEPT ![entity.idx + 1][ty] = Some(component)]
       ELSE UNCHANGED << ent_changed, components >>
    /\ UNCHANGED << next_idx, next_uuid, active, reusable_idxs, parents,
                    ent_added, ent_remove, issued, fresh, slated, condemned >>

\* World::add_component, the value it returns: what AnyMap::insert replaced.
add_component_ret(entity, ty) ==
    IF is_valid_entity(entity) THEN components[entity.idx + 1][ty] ELSE None

\* World::add_component
add_component(entity, ty, component) ==
    /\ IF is_valid_entity(entity)
       THEN /\ ent_changed' = MapInsert(ent_changed, entity.idx, entity.uuid)
            /\ components' = [components EXCEPT ![entity.idx + 1][ty] = Some(component)]
       ELSE UNCHANGED << ent_changed, components >>
    /\ UNCHANGED << next_idx, next_uuid, active, reusable_idxs, parents,
                    ent_added, ent_remove, issued, fresh, slated, condemned >>

\* Mutant of get_mut_component_ret: the reference is looked up along the parent
\* chain, as get_component does.
M_get_mut_component_ret_inherited(entity, ty) ==
    IF get_component(ty, entity) = Diverges THEN None ELSE get_component(ty, entity)

\* World::get_mut_component, the reference it returns (the value behind it).
get_mut_component_ret(entity, ty) ==
    IF is_valid_entity(entity) THEN components[entity.idx + 1][ty] ELSE None

\* Mutant of get_mut_component: a valid entity is marked as changed also when
\* it has no component of the type.
M_get_mut_component_marks_absent(entity, ty, written) ==
    /\ IF is_valid_entity(entity)
       THEN /\ ent_changed' = MapInsert(ent_changed, entity.idx, entity.uuid)
            /\ components' = IF components[entity.idx + 1][ty] # None
                             THEN [components EXCEPT ![entity.idx + 1][ty] = Some(written)]
                             ELSE components
       ELSE UNCHANGED << ent_changed, components >>
    /\ UNCHANGED << next_idx, next_uuid, active, reusable_idxs, parents,
                    ent_added, ent_remove, issued, fresh, slated, condemned >>

\* World::get_mut_component, and the caller's use of the reference it returns:
\* `written` is the value the caller leaves in the component (the value
\* that was there when the caller only reads through the reference).
get_mut_component(entity, ty, written) ==
    /\ IF get_mut_component_ret(entity, ty) # None
       THEN /\ ent_changed' = MapInsert(ent_changed, entity.idx, entity.uuid)
            /\ components' = [components EXCEPT ![entity.idx + 1][ty] = Some(written)]
       ELSE UNCHANGED << ent_changed, components >>
    /\ UNCHANGED << next_idx, next_uuid, active, reusable_idxs, parents,
                    ent_added, ent_remove, issued, fresh, slated, condemned >>

\* World::remove_component, the value it returns: what AnyMap::remove took out.
remove_component_ret(entity, ty) ==
    IF is_valid_entity(entity) THEN components[entity.idx + 1][ty] ELSE None

\* World::remove_component
remove_component(entity, ty) ==
    /\ IF remove_component_ret(entity, ty) # None
       THEN /\ ent_changed' = MapInsert(ent_changed, entity.idx, entity.uuid)
            /\ components' = [components EXCEPT ![entity.idx + 1][ty] = None]
       ELSE UNCHANGED << ent_changed, components >>
    /\ UNCHANGED << next_idx, next_uuid, active, reusable_idxs, parents,
                    ent_added, ent_remove, issued, fresh, slated, condemned >>

\* Mutant of set_parent_ret: only the child is checked.
M_set_parent_ret_child_only(entity, parent) == is_valid_entity(entity)

\* World::set_parent, the bool it returns.
set_parent_ret(entity, parent) == is_valid_entity(entity) /\ is_valid_entity(parent)

\* World::set_parent
set_parent(entity, parent) ==
    /\ parents' = IF set_parent_ret(entity, parent)
                  THEN MapInsert(parents, entity, parent)
                  ELSE parents
    /\ UNCHANGED << next_idx, next_uuid, active, reusable_idxs, components,
                    ent_added, ent_remove, ent_changed, issued, fresh, slated, condemned >>

\* Mutant of unlink_parent: the links of all children are removed.
M_unlink_parent_clears_all(entity) ==
    /\ parents' = IF is_valid_entity(entity) THEN EmptyMap ELSE parents
    /\ UNCHANGED << next_idx, next_uuid, active, reusable_idxs, components,
                    ent_added, ent_remove, ent_changed, issued, fresh, slated, condemned >>

\* World::unlink_parent
unlink_parent(entity) ==
    /\ parents' = IF is_valid_entity(entity) THEN MapRemove(parents, entity) ELSE parents
    /\ UNCHANGED << next_idx, next_uuid, active, reusable_idxs, components,
                    ent_added, ent_remove, ent_changed, issued, fresh, slated, condemned >>

\* --------------------------------------------------- the walk, step by step
\* What has_component / get_component return when the walk finds a component
\* and when it finds none.
Found(fn, comp) == IF fn = "has_component" THEN TRUE ELSE comp
NotFound(fn) == IF fn = "has_component" THEN FALSE ELSE None

\* The method `fn` has returned `ret` / is in its loop with cur_ent (`moved`:
\* the loop has followed a parent link at least once).
WalkDone(fn, ty, entity, ret) ==
    [pc |-> "done", fn |-> fn, ty |-> ty, entity |-> entity, ret |-> ret]
WalkLoop(fn, ty, entity, cur_ent, moved) ==
    [pc |-> "loop", fn |-> fn, ty |-> ty, entity |-> entity, cur_ent |-> cur_ent,
     moved |-> moved]

\* World::has_component / World::get_component up to the loop: the validity
\* check and the look at the entity's own components.
walk_start(fn, ty, entity) ==
    /\ walk = Idle
    /\ walk' = IF is_valid_entity(entity)
               THEN IF components[entity.idx + 1][ty] # None
                    THEN WalkDone(fn, ty, entity, Found(fn, components[entity.idx + 1][ty]))
                    ELSE WalkLoop(fn, ty, entity, entity, FALSE)
               ELSE WalkDone(fn, ty, entity, NotFound(fn))
    /\ UNCHANGED << world, history, last, steps >>

\* Mutant of walk_loop: an entity the loop comes back to ends the walk.
M_walk_loop_stops_on_revisit ==
    /\ walk.pc = "loop"
    /\ LET cur_ent == walk.cur_ent
           done(ret) == WalkDone(walk.fn, walk.ty, walk.entity, ret)
       IN walk' =
             IF is_valid_entity(cur_ent)
             THEN IF components[cur_ent.idx + 1][walk.ty] # None
                  THEN done(Found(walk.fn, components[cur_ent.idx + 1][walk.ty]))
                  ELSE IF get_parent(cur_ent) # None
                       THEN IF get_parent(cur_ent)[1] = walk.entity
                            THEN done(NotFound(walk.fn))
                            ELSE [walk EXCEPT !.cur_ent = get_parent(cur_ent)[1],
                                              !.moved = TRUE]
                       ELSE done(NotFound(walk.fn))
             ELSE done(NotFound(walk.fn))
    /\ UNCHANGED << world, history, last, steps >>

\* One iteration of the loop of World::has_component / World::get_component.
walk_loop ==
    /\ walk.pc = "loop"
    /\ LET cur_ent == walk.cur_ent
           done(ret) == WalkDone(walk.fn, walk.ty, walk.entity, ret)
       IN walk' =
             IF is_valid_entity(cur_ent)
             THEN IF components[cur_ent.idx + 1][walk.ty] # None
                  THEN done(Found(walk.fn, components[cur_ent.idx + 1][walk.ty]))
                  ELSE IF get_parent(cur_ent) # None
                       THEN [walk EXCEPT !.cur_ent = get_parent(cur_ent)[1],
                                         !.moved = TRUE]
                       ELSE done(NotFound(walk.fn))
             ELSE done(NotFound(walk.fn))
    /\ UNCHANGED << world, history, last, steps >>

\* The caller has the value returned; the borrow of the world ends.
walk_return ==
    /\ walk.pc = "done"
    /\ walk' = Idle
    /\ UNCHANGED << world, history, last, steps >>

\* ---------------------------------------------------------- specification
\* The fields of the world a call can change, as they are before the call.
Before ==
    [active |-> active, reusable_idxs |-> reusable_idxs, components |-> components,
     parents |-> parents, ent_added |-> ent_added, ent_remove |-> ent_remove,
     ent_changed |-> ent_changed]

\* The record of a call: the method, its arguments (None for the ones it does
\* not have), the value it returns and the world it starts from.
CallRec(op, entity, parent, ty, value, ret) ==
    [op |-> op, entity |-> entity, parent |-> parent, ty |-> ty, value |-> value,
     ret |-> ret, before |-> Before]

\* The entities whose components the caller has changed since the last
\* confirm_changes, after the call `rec`: add_component on a valid entity,
\* get_mut_component and remove_component that returned a value.
Touched(rec) ==
    IF rec.op = "confirm_changes" THEN {}
    ELSE IF \/ rec.op = "add_component" /\ is_valid_entity(rec.entity)
            \/ rec.op \in { "get_mut_component", "remove_component" } /\ rec.ret # None
         THEN touched \cup { rec.entity }
         ELSE touched

\* The entities removed so far, after the call `rec` that leads to the slot
\* table `act`: a confirm_changes adds the entities it made invalid, each with
\* the components, the parent and the children it had before the call.
Reaped(rec, act) ==
    IF rec.op = "confirm_changes"
    THEN reaped \cup
            { [entity |-> e,
               components |-> components[e.idx + 1],
               parent |-> MapGet(parents, e),
               children |-> { c \in DOMAIN parents : parents[c] = e }] :
              e \in { x \in Range(issued) : is_valid_entity(x) /\ ~IsValidIn(act, x) } }
    ELSE reaped

\* A call `op`, recorded as `rec`, within a budget of `max` calls that change
\* the world; no call starts while a walk holds a reference to the world.
\* `traced`: the call is kept in `last`, and what confirm_changes removes in
\* `reaped`.
Call(op, rec, max, traced) ==
    /\ steps < max
    /\ walk = Idle
    /\ op
    /\ touched' = Touched(rec)
    /\ last' = IF traced THEN rec ELSE last
    /\ reaped' = IF traced THEN Reaped(rec, active') ELSE reaped
    /\ walk' = walk
    /\ steps' = IF called' # called THEN steps + 1 ELSE steps

\* A call of any operation, with any entity value, with components of the
\* types `types`.
Calls(types, max, traced) ==
    \/ Call(add_entity,
            CallRec("add_entity", None, None, None, None, Some(add_entity_ret)), max, traced)
    \/ \E entity \in EntityArgs :
          Call(remove_entity(entity),
               CallRec("remove_entity", entity, None, None, None, None), max, traced)
    \/ Call(confirm_changes,
            CallRec("confirm_changes", None, None, None, None, None), max, traced)
    \/ \E entity \in EntityArgs, ty \in types :
          \E component \in ValuesOf(ty) :
             Call(add_component(entity, ty, component),
                  CallRec("add_component", entity, None, ty, component,
                          add_component_ret(entity, ty)), max, traced)
    \/ \E entity \in EntityArgs, ty \in types :
          \E written \in ValuesOf(ty) :
             Call(get_mut_component(entity, ty, written),
                  CallRec("get_mut_component", entity, None, ty, written,
                          get_mut_component_ret(entity, ty)), max, traced)
    \/ \E entity \in EntityArgs, ty \in types :
          Call(remove_component(entity, ty),
               CallRec("remove_component", entity, None, ty, None,
                       remove_component_ret(entity, ty)), max, traced)
    \/ \E entity, parent \in EntityArgs :
          Call(set_parent(entity, parent),
               CallRec("set_parent", entity, parent, None, None,
                       set_parent_ret(entity, parent)), max, traced)
    \/ \E entity \in EntityArgs :
          Call(unlink_parent(entity),
               CallRec("unlink_parent", entity, None, None, None, None), max, traced)

\* The world with components of one type.
Next == Calls({ "Position" }, MaxSteps, FALSE)

Spec == Init /\ [][Next]_vars

\* The world with components of two types, one of them the Parent wrapper.
NextTyped == Calls(CompTypes, MaxTypedSteps, FALSE)

SpecTyped == Init /\ [][NextTyped]_vars

\* The world with components of one type, every call recorded in `last`
\* (the calls that leave the world as it is included).
NextTraced == Calls({ "Position" }, MaxTracedSteps, TRUE)

SpecTraced == Init /\ [][NextTraced]_vars

\* The world with components of one type, has_component and get_component
\* taken one loop iteration at a time.  An iteration of a loop that is running
\* is eventually executed.
NextWalk ==
    \/ Calls({ "Position" }, MaxWalkSteps, FALSE)
    \/ \E fn \in { "has_component", "get_component" }, entity \in EntityArgs :
          walk_start(fn, "Position", entity)
    \/ walk_loop
    \/ walk_return

SpecWalk == Init /\ [][NextWalk]_vars /\ WF_vars(walk_loop)

\* ------------------------------------------------------------------ claims
\* The entities add_entity has returned, and their indices.
Issued == Range(issued)
IssuedIdxs == { e.idx : e \in Issued }

\* A step that is a call of add_entity: it returns one more entity.
AddEntityStep == Len(issued') = Len(issued) + 1
Returned == issued'[Len(issued')]

\* C1: a valid entity passed to remove_entity is invalid after the next
\* confirm_changes, whatever was called in between, and stays invalid.
C1_DestroyedInvalidAfterCommit == \A e \in condemned : ~is_valid_entity(e)

\* C2: the k-th call of add_entity returns uuid k: uuids start at 1, go up by
\* one per entity created, are never 0 and never issued twice, so that no two
\* entities returned are equal.
C2_KthEntityHasUuidK ==
    /\ \A k \in 1..Len(issued) : issued[k].uuid = k
    /\ \A j, k \in 1..Len(issued) : j # k => issued[j] # issued[k]
    /\ \A e \in Issued : e.uuid # 0

\* Three entities were created, the third one in the slot of the first, which
\* was removed and committed in between.
C2_Witness ==
    /\ Len(issued) = 3
    /\ issued[3].idx = issued[1].idx
    /\ is_valid_entity(issued[3])
    /\ is_valid_entity(issued[2])

\* C3: add_entity never returns an idx whose slot holds a valid entity (staged
\* for removal or not), so no two valid entities it returned share an idx.
C3_NeverAllocatesLiveSlot ==
    [][AddEntityStep =>
          /\ get_uuid(Returned.idx) = 0
          /\ \A e \in Issued : is_valid_entity(e) => e.idx # Returned.idx
          /\ \A e1, e2 \in Issued' :
                (is_valid_entity(e1)' /\ is_valid_entity(e2)' /\ e1.idx = e2.idx) => e1 = e2
      ]_vars

\* add_entity has reused a freed slot while another entity was valid and
\* staged for removal.
C3_Witness ==
    /\ Len(issued) = 3
    /\ issued[3].idx = issued[1].idx
    /\ is_valid_entity(issued[3])
    /\ is_valid_entity(issued[2])
    /\ issued[2] \in slated
    /\ issued[3] \in fresh

\* The indices freed by a committed removal and not reused yet.
FreedNotReused == { i \in IssuedIdxs : get_uuid(i) = 0 }

\* C4: add_entity returns the top of the free list when an index freed by a
\* committed removal has not been reused yet (and takes it off the list), and
\* the number of distinct indices issued so far otherwise.  After create e1,
\* e2; destroy e1; commit, the entity created is (idx 0, uuid 3).
C4_IndexChoice ==
    [][AddEntityStep =>
          /\ IF FreedNotReused # {}
             THEN /\ reusable_idxs # << >>
                  /\ Returned.idx = reusable_idxs[Len(reusable_idxs)]
                  /\ Returned.idx \in FreedNotReused
                  /\ reusable_idxs' = SubSeq(reusable_idxs, 1, Len(reusable_idxs) - 1)
             ELSE /\ Returned.idx = Cardinality(IssuedIdxs)
                  /\ reusable_idxs' = reusable_idxs
          /\ (/\ issued = << Entity(0, 1), Entity(1, 2) >>
              /\ ~is_valid_entity(Entity(0, 1))
              /\ is_valid_entity(Entity(1, 2)))
             => Returned = Entity(0, 3)
      ]_vars

\* e1 and e2 were removed and committed, so that two indices were free, and
\* add_entity has then reused one of them.
C4_Witness ==
    /\ Len(issued) = 3
    /\ Len(reusable_idxs) = 1
    /\ issued[3].idx \in { 0, 1 }
    /\ is_valid_entity(issued[3])
    /\ ~is_valid_entity(issued[1])
    /\ ~is_valid_entity(issued[2])

\* A step that is a call of remove_entity (one that changes ent_remove).
RemoveEntityStep == ent_remove' # ent_remove /\ DOMAIN ent_remove' # {}

\* C5: remove_entity changes nothing but the pending-removal log: the slot
\* table, the free list, the component store, the parent links and the added
\* and changed logs are unchanged, every entity is as valid as before and its
\* components are retrievable with the same values.
C5_RemoveEntityOnlyStages ==
    [][RemoveEntityStep =>
          /\ UNCHANGED << next_idx, next_uuid, active, reusable_idxs, components, parents,
                          ent_added, ent_changed >>
          /\ \E e \in EntityArgs : ent_remove' = MapInsert(ent_remove, e.idx, e.uuid)
          /\ \A e \in EntityArgs :
                /\ is_valid_entity(e)' = is_valid_entity(e)
                /\ \A ty \in CompTypes : get_component(ty, e)' = get_component(ty, e)
      ]_vars

\* A valid entity with a component and a parent is staged for removal, and
\* is still valid with its component and its parent.
C5_Witness ==
    \E e \in Issued :
       /\ e \in slated
       /\ MapGet(ent_remove, e.idx) = Some(e.uuid)
       /\ is_valid_entity(e)
       /\ get_component("Position", e) = Some(Position(10, 12))
       /\ components[e.idx + 1]["Position"] = Some(Position(10, 12))
       /\ get_parent(e) # None

\* The entities list_entities returns, and the ones the iterator yields.
Listed == Range(list_entities)
Iterated == Range(iterator)

\* C6 as stated: an entity returned by add_entity is absent from
\* list_entities and from the iterator until the next confirm_changes, and is
\* in both right after it.
C6_VisibleAfterCommit ==
    [][/\ fresh' \cap (Listed' \cup Iterated') = {}
       /\ (fresh # {} /\ fresh' = {}) => (fresh \subseteq Listed' /\ fresh \subseteq Iterated')
      ]_vars

\* C6 as amended: an entity returned by add_entity is absent from
\* list_entities and from the iterator until the next confirm_changes; right
\* after it the entity is in both if it is still valid, and in neither if that
\* confirm_changes removed it.
C6_VisibleAfterCommitIfValid ==
    [][/\ fresh' \cap (Listed' \cup Iterated') = {}
       /\ (fresh # {} /\ fresh' = {}) =>
             \A e \in fresh : /\ (e \in Listed') = is_valid_entity(e)'
                              /\ (e \in Iterated') = is_valid_entity(e)'
      ]_vars

\* Right after a confirm_changes: an entity created before it is listed and
\* iterated, and another one, created and removed before it, is not.
C6_Witness ==
    /\ fresh = {}
    /\ DOMAIN ent_added = {}
    /\ Len(issued) = 2
    /\ \E e \in Issued : is_valid_entity(e) /\ e \in Listed /\ e \in Iterated
    /\ \E e \in Issued : ~is_valid_entity(e) /\ e \notin Listed /\ e \notin Iterated

\* C7: add_component on a valid entity (committed or not) returns the value
\* of that type stored on the entity itself (none if there was none, also
\* when an ancestor has one); afterwards get_component returns the new value,
\* and the components of other entities and of other types are unchanged.
C7_AddComponentReplaces ==
    [][\A e \in { x \in EntityArgs : is_valid_entity(x) }, ty \in CompTypes :
       \A v \in ValuesOf(ty) :
          add_component(e, ty, v) =>
             /\ add_component_ret(e, ty) = components[e.idx + 1][ty]
             /\ get_component(ty, e)' = Some(v)
             /\ Len(components') = Len(components)
             /\ \A k \in 1..Len(components), t2 \in CompTypes :
                   (k # e.idx + 1 \/ t2 # ty) => components'[k][t2] = components[k][t2]
      ]_vars

\* An entity not yet committed holds the second Position value after a first
\* one was attached and replaced, and holds a component of another type.
C7_Witness ==
    /\ Len(issued) = 1
    /\ steps = 4
    /\ issued[1] \in fresh
    /\ DOMAIN ent_remove = {}
    /\ MapGet(ent_changed, 0) = Some(1)
    /\ get_component("Position", issued[1]) = Some(Position(5, 7))
    /\ get_component("Parent", issued[1]) = Some(Parent(issued[1]))

\* C8: with Position {10, 12} attached to a parent entity, Parent(parent)
\* attached to a child and Parent(child) to a grandchild, and no Position on
\* child or grandchild, get_component::<Position>(grandchild) is {10, 12}.
C8_ParentComponentInherits ==
    \A p, c, g \in Issued :
       (/\ is_valid_entity(p) /\ is_valid_entity(c) /\ is_valid_entity(g)
        /\ components[p.idx + 1]["Position"] = Some(Position(10, 12))
        /\ components[c.idx + 1]["Parent"] = Some(Parent(p))
        /\ components[g.idx + 1]["Parent"] = Some(Parent(c))
        /\ components[c.idx + 1]["Position"] = None
        /\ components[g.idx + 1]["Position"] = None)
       => get_component("Position", g) = Some(Position(10, 12))

\* The parent chain of an entity as the parent-link table stores it: the
\* entity, its parent, the parent of its parent, ... (at most `fuel` of them).
RECURSIVE ChainFrom(_, _)
ChainFrom(e, fuel) ==
    IF fuel = 0 THEN << >>
    ELSE << e >> \o (IF e \in DOMAIN parents THEN ChainFrom(parents[e], fuel - 1) ELSE << >>)

Chain(e) == ChainFrom(e, Cardinality(DOMAIN parents) + 1)

\* The chain of e ends: it does not run into a cycle.
Acyclic(e) == Chain(e)[Len(Chain(e))] \notin DOMAIN parents

\* The component of type ty an entity has of its own.
Own(ty, e) == IF is_valid_entity(e) THEN components[e.idx + 1][ty] ELSE None

\* The component of the first entity of the chain that has one of its own.
RECURSIVE FirstOwn(_, _)
FirstOwn(ty, chain) ==
    IF chain = << >> THEN None
    ELSE IF Own(ty, Head(chain)) # None THEN Own(ty, Head(chain))
    ELSE FirstOwn(ty, Tail(chain))

\* C9: on an acyclic parent chain, get_component of a valid entity is the
\* component of the first entity of e, parent(e), parent(parent(e)), ... that
\* has one of its own, none if there is none, and has_component is true
\* exactly when get_component returns a value.
C9_NearestOnChain ==
    \A e \in EntityArgs, ty \in CompTypes :
       (is_valid_entity(e) /\ Acyclic(e)) =>
          /\ get_component(ty, e) = FirstOwn(ty, Chain(e))
          /\ has_component(ty, e) = (get_component(ty, e) # None)

\* A chain of three entities: the first has no Position, its parent and its
\* grandparent have different ones, and get_component finds the parent's.
C9_Witness ==
    \E e, p, g \in Issued :
       /\ is_valid_entity(e)
       /\ Chain(e) = << e, p, g >>
       /\ Own("Position", e) = None
       /\ Own("Position", p) = Some(Position(5, 7))
       /\ Own("Position", g) = Some(Position(10, 12))
       /\ get_component("Position", e) = Some(Position(5, 7))
       /\ has_component("Position", e)

\* e is valid, has no ty of its own, and an ancestor of e has one.
InheritsOnly(ty, e) ==
    /\ is_valid_entity(e)
    /\ Own(ty, e) = None
    /\ Acyclic(e)
    /\ FirstOwn(ty, Tail(Chain(e))) # None

\* C10: when a valid entity has no ty of its own and an ancestor has one,
\* get_mut_component and remove_component return no value and leave the
\* components and the changed log as they are, while get_component returns
\* the ancestor's value.
C10_MutationNotInherited ==
    /\ [](\A e \in EntityArgs, ty \in CompTypes :
            InheritsOnly(ty, e) =>
               /\ get_mut_component_ret(e, ty) = None
               /\ remove_component_ret(e, ty) = None
               /\ get_component(ty, e) = FirstOwn(ty, Tail(Chain(e))))
    /\ [][\A e \in EntityArgs, ty \in CompTypes :
            (/\ InheritsOnly(ty, e)
             /\ \/ \E written \in ValuesOf(ty) : get_mut_component(e, ty, written)
                \/ remove_component(e, ty))
            => UNCHANGED << components, ent_changed >>
         ]_vars

\* A committed child without a Position whose parent has one, with an empty
\* changed log.
C10_Witness ==
    \E e, p \in Issued :
       /\ InheritsOnly("Position", e)
       /\ Chain(e) = << e, p >>
       /\ Own("Position", p) = Some(Position(10, 12))
       /\ get_component("Position", e) = Some(Position(10, 12))
       /\ get_mut_component_ret(e, "Position") = None
       /\ DOMAIN ent_changed = {}
       /\ DOMAIN ent_added = {}

\* C11: right after a confirm_changes no stored parent link has an invalid
\* child or an invalid parent; a child that is still valid and whose parent
\* the confirm_changes removed has no parent any more (get_parent returns
\* none) and gets the components of its own only.
C11_LinksPrunedAtCommit ==
    [][last'.op = "confirm_changes" =>
          /\ \A c \in DOMAIN parents' :
                IsValidIn(active', c) /\ IsValidIn(active', parents'[c])
          /\ \A c \in DOMAIN parents :
                (IsValidIn(active', c) /\ ~IsValidIn(active', parents[c])) =>
                   /\ get_parent(c)' = None
                   /\ \A ty \in CompTypes : get_component(ty, c)' = Own(ty, c)'
      ]_vars

\* The last call was a confirm_changes that removed the parent of a child
\* that is still valid; the child has no parent now.
C11_Witness ==
    /\ last.op = "confirm_changes"
    /\ \E c \in DOMAIN last.before.parents :
          /\ IsValidIn(last.before.active, last.before.parents[c])
          /\ ~is_valid_entity(last.before.parents[c])
          /\ is_valid_entity(c)
          /\ get_parent(c) = None
          /\ c \notin DOMAIN parents

\* C12: set_parent(child, parent) returns true exactly when child and parent
\* are both valid at the call; it then stores the link, in place of any
\* earlier parent of child, so that get_parent(child) is parent, and leaves
\* the links of the other children as they are; when it returns false the
\* parent links are unchanged.  Nothing else of the world changes.
C12_SetParentIffBothValid ==
    [][\A child, parent \in EntityArgs :
          (last'.op = "set_parent" /\ last'.entity = child /\ last'.parent = parent) =>
             /\ last'.ret = (is_valid_entity(child) /\ is_valid_entity(parent))
             /\ IF is_valid_entity(child) /\ is_valid_entity(parent)
                THEN /\ get_parent(child)' = Some(parent)
                     /\ DOMAIN parents' = DOMAIN parents \cup { child }
                     /\ \A c \in DOMAIN parents \ { child } : parents'[c] = parents[c]
                ELSE parents' = parents
             /\ UNCHANGED << next_idx, next_uuid, active, reusable_idxs, components,
                             ent_added, ent_remove, ent_changed >>
      ]_vars

\* The last call was a set_parent that returned true and replaced the parent
\* the child had before.
C12_Witness ==
    /\ last.op = "set_parent"
    /\ last.ret = TRUE
    /\ last.entity \in DOMAIN last.before.parents
    /\ last.before.parents[last.entity] # last.parent
    /\ get_parent(last.entity) = Some(last.parent)

\* The methods of C13 that take &mut self.
GatedMutators == { "add_component", "get_mut_component", "remove_component", "unlink_parent" }

\* C13: with an entity that is not valid (stale, uuid 0, or idx beyond the
\* slot table), get_component, has_component and get_parent return none /
\* false; add_component, get_mut_component and remove_component return none,
\* and they and unlink_parent leave the whole world as it is.
C13_InvalidEntityIsNoOp ==
    /\ [](\A e \in EntityArgs, ty \in CompTypes :
            ~is_valid_entity(e) =>
               /\ get_component(ty, e) = None
               /\ has_component(ty, e) = FALSE
               /\ get_parent(e) = None
               /\ add_component_ret(e, ty) = None
               /\ get_mut_component_ret(e, ty) = None
               /\ remove_component_ret(e, ty) = None)
    /\ [][(last'.op \in GatedMutators /\ ~is_valid_entity(last'.entity)) =>
             /\ UNCHANGED world
             /\ last'.op # "unlink_parent" => last'.ret = None
         ]_vars

\* The last call was add_component with the stale entity of a slot that now
\* holds another entity: it returned none, the entity in the slot has no
\* component and the world is as it was before the call.
C13_Witness ==
    /\ last.op = "add_component"
    /\ last.entity \in Issued
    /\ ~is_valid_entity(last.entity)
    /\ get_uuid(last.entity.idx) # 0
    /\ components[last.entity.idx + 1][last.ty] = None
    /\ DOMAIN ent_changed = {}
    /\ last.ret = None
    /\ last.before = Before

\* C14: right after a confirm_changes, list_additions, list_removals and
\* list_changes are empty, also when a staged removal named an entity that
\* was not valid and was not applied.
C14_LogsEmptyAfterCommit ==
    [][last'.op = "confirm_changes" =>
          /\ list_additions' = {}
          /\ list_removals' = {}
          /\ list_changes' = {}
      ]_vars

\* The last call was a confirm_changes with the three logs non-empty, one
\* staged removal naming an invalid entity and one a valid entity; the logs
\* are empty now.
C14_Witness ==
    /\ last.op = "confirm_changes"
    /\ DOMAIN last.before.ent_added # {}
    /\ DOMAIN last.before.ent_changed # {}
    /\ \E i, j \in DOMAIN last.before.ent_remove :
          /\ ~IsValidIn(last.before.active, Entity(i, last.before.ent_remove[i]))
          /\ IsValidIn(last.before.active, Entity(j, last.before.ent_remove[j]))
    /\ list_additions = {}
    /\ list_removals = {}
    /\ list_changes = {}

\* C15: list_additions is the set of the entities add_entity returned since
\* the last confirm_changes; list_changes is the set of the entities on which,
\* since the last confirm_changes, add_component was called while they were
\* valid or get_mut_component / remove_component returned a value (a call
\* that returned none adds nothing); no entity is listed twice.
C15_LogsAreExact ==
    /\ list_additions = fresh
    /\ list_changes = touched
    /\ Cardinality(list_additions) = Cardinality(DOMAIN ent_added)
    /\ Cardinality(list_changes) = Cardinality(DOMAIN ent_changed)

\* Two entities created since the last confirm_changes, one of them changed
\* twice; the last call was a remove_component on the other one, which has no
\* component, and returned none.
C15_Witness ==
    /\ last.op = "remove_component"
    /\ is_valid_entity(last.entity)
    /\ last.ret = None
    /\ Cardinality(fresh) = 2
    /\ last.entity \in fresh
    /\ Cardinality(touched) = 1
    /\ last.entity \notin touched
    /\ list_changes = touched
    /\ steps = 4

\* The entities (idx, active[idx]) with a uuid other than 0 whose idx is not a
\* key of ent_added, by ascending idx.
VisibleEntities ==
    SelectSeq([k \in 1..Len(active) |-> Entity(k - 1, active[k])],
              LAMBDA e : e.uuid # 0 /\ e.idx \notin DOMAIN ent_added)

\* C16: list_entities returns the entities whose slot uuid is not 0 and whose
\* idx is not a key of ent_added, by ascending idx, and the iterator yields
\* the same sequence (comparing the uuid in ent_added with the one of the slot
\* makes no difference).
C16_ListingIsVisibleEntities ==
    /\ list_entities = VisibleEntities
    /\ iterator = VisibleEntities
    /\ \A idx \in DOMAIN ent_added : get_uuid(idx) = ent_added[idx]

\* Two committed entities in slots 0 and 2 are listed in that order; slot 1,
\* freed by a confirm_changes, holds an entity not yet committed, which is not
\* listed.
C16_Witness ==
    /\ Len(list_entities) = 2
    /\ list_entities[1].idx = 0
    /\ list_entities[2].idx = 2
    /\ iterator = list_entities
    /\ DOMAIN ent_added = { 1 }
    /\ is_valid_entity(Entity(1, ent_added[1]))
    /\ Entity(1, 2) \in condemned

\* C17: after unlink_parent(e), with e valid or not, no parent link has e as
\* its child and get_parent(e) returns none; the links of the other children
\* are unchanged, nothing else of the world changes, and the call changes
\* nothing at all when e has no link.
C17_UnlinkRemovesOnlyOwnLink ==
    [][\A e \in EntityArgs :
          (last'.op = "unlink_parent" /\ last'.entity = e) =>
             /\ e \notin DOMAIN parents'
             /\ get_parent(e)' = None
             /\ DOMAIN parents' = DOMAIN parents \ { e }
             /\ \A c \in DOMAIN parents' : parents'[c] = parents[c]
             /\ e \notin DOMAIN parents => parents' = parents
             /\ UNCHANGED << next_idx, next_uuid, active, reusable_idxs, components,
                             ent_added, ent_remove, ent_changed >>
      ]_vars

\* The last call was unlink_parent on a child that had a parent; the link of
\* another child is still there.
C17_Witness ==
    /\ last.op = "unlink_parent"
    /\ last.entity \in DOMAIN last.before.parents
    /\ last.entity \notin DOMAIN parents
    /\ get_parent(last.entity) = None
    /\ \E c \in DOMAIN parents : c # last.entity /\ parents[c] = last.before.parents[c]

\* C18: an entity becomes invalid only at a confirm_changes, and only if
\* remove_entity was called with exactly its idx and uuid since the previous
\* confirm_changes.  A staged removal that names another uuid than the one of
\* the valid entity in the slot (stale, never issued) or an idx beyond the
\* slot table leaves that entity valid with its components, and the
\* confirm_changes completes.
C18_RemovalNamesTheEntity ==
    [][/\ \A e \in Issued :
             (is_valid_entity(e) /\ ~is_valid_entity(e)') =>
                /\ last'.op = "confirm_changes"
                /\ e \in slated
                /\ MapGet(ent_remove, e.idx) = Some(e.uuid)
       /\ last'.op = "confirm_changes" =>
             \A e \in Issued :
                (is_valid_entity(e) /\ MapGet(ent_remove, e.idx) # Some(e.uuid)) =>
                   /\ is_valid_entity(e)'
                   /\ components'[e.idx + 1] = components[e.idx + 1]
      ]_vars

\* The last call was a confirm_changes with a staged removal for the slot of
\* a valid entity under another uuid, and one for an idx beyond the slot
\* table; the entity is still valid and has its component.
C18_Witness ==
    /\ last.op = "confirm_changes"
    /\ \E i, j \in DOMAIN last.before.ent_remove :
          /\ i < Len(active)
          /\ is_valid_entity(Entity(i, active[i + 1]))
          /\ IsValidIn(last.before.active, Entity(i, active[i + 1]))
          /\ last.before.ent_remove[i] # active[i + 1]
          /\ components[i + 1]["Position"] # None
          /\ components[i + 1] = last.before.components[i + 1]
          /\ j >= Len(active)

\* The parent chain of the valid entity e closes on itself and no entity on
\* it has a component of type ty.
OnBareCycle(ty, e) ==
    /\ is_valid_entity(e)
    /\ ~Acyclic(e)
    /\ FirstOwn(ty, Chain(e)) = None

\* What a finished walk must have returned.
WalkResult ==
    IF walk.fn = "has_component" THEN has_component(walk.ty, walk.entity)
    ELSE get_component(walk.ty, walk.entity)

\* C19: set_parent checks for no cycle, so a parent chain can close on itself;
\* has_component and get_component called on a valid entity of such a chain
\* on which no entity has the component never return, and on an acyclic chain
\* they always return (the value of C9).
C19_WalkTerminatesIffNoBareCycle ==
    /\ [](walk.pc = "done" =>
            /\ ~OnBareCycle(walk.ty, walk.entity)
            /\ walk.ret = WalkResult)
    /\ [](walk.pc = "loop" => is_valid_entity(walk.cur_ent))
    /\ [](\A e \in EntityArgs, ty \in { "Position" } :
            /\ (get_component(ty, e) = Diverges) = OnBareCycle(ty, e)
            /\ ~OnBareCycle(ty, e) => has_component(ty, e) = (get_component(ty, e) # None))
    /\ (walk.pc = "loop" /\ Acyclic(walk.entity)) ~> (walk.pc = "done")

\* Two entities are each other's parent, neither has a Position, and the
\* loop of a walk that started on one of them is back at it.
C19_Witness ==
    /\ walk.pc = "loop"
    /\ walk.moved
    /\ walk.cur_ent = walk.entity
    /\ OnBareCycle(walk.ty, walk.entity)
    /\ parents[walk.entity] # walk.entity
    /\ parents[parents[walk.entity]] = walk.entity

\* C20: in every state between two calls, every stored parent link has a
\* valid child and a valid parent; get_parent never returns an invalid
\* entity, and every entity on the parent chain of a valid entity is valid.
C20_LinksAlwaysValid ==
    /\ \A c \in DOMAIN parents : is_valid_entity(c) /\ is_valid_entity(parents[c])
    /\ \A e \in EntityArgs :
          /\ get_parent(e) # None => is_valid_entity(get_parent(e)[1])
          /\ is_valid_entity(e) =>
                \A k \in 1..Len(Chain(e)) : is_valid_entity(Chain(e)[k])

\* A child in a reused slot has a parent that is staged for removal and still
\* valid; the earlier entity of the child's slot was removed by a
\* confirm_changes.
C20_Witness ==
    \E c \in DOMAIN parents :
       /\ parents[c] \in slated
       /\ is_valid_entity(parents[c])
       /\ get_parent(c) = Some(parents[c])
       /\ \E x \in condemned : ~is_valid_entity(x) /\ x.idx = c.idx

\* C21: in every state the free list holds no idx twice, and holds exactly
\* the idxs below next_idx whose slot uuid is 0; the component store has
\* next_idx slots; a slot uuid other than 0 is at an idx below next_idx and is
\* smaller than next_uuid.  So a valid entity indexes an existing component
\* slot, and no two valid entities share an idx.
C21_AllocatorInvariant ==
    /\ Cardinality(Range(reusable_idxs)) = Len(reusable_idxs)
    /\ Range(reusable_idxs) = { i \in 0..(next_idx - 1) : get_uuid(i) = 0 }
    /\ Len(components) = next_idx
    /\ \A k \in 1..Len(active) :
          active[k] # 0 => (k - 1 < next_idx /\ active[k] < next_uuid)
    /\ \A e \in EntityArgs : is_valid_entity(e) => e.idx < Len(components)
    /\ \A e1, e2 \in Issued :
          (is_valid_entity(e1) /\ is_valid_entity(e2) /\ e1.idx = e2.idx) => e1 = e2

\* Three slots exist; two of them were freed by a confirm_changes and are on
\* the free list, the third holds a valid entity.
C21_Witness ==
    /\ next_idx = 3
    /\ Len(components) = 3
    /\ Len(reusable_idxs) = 2
    /\ reusable_idxs[1] # reusable_idxs[2]
    /\ Cardinality({ e \in Issued : is_valid_entity(e) }) = 1
    /\ Cardinality(condemned) = 2

\* C22: right after add_entity returns e, also when e has the idx of a
\* removed entity that had components, a parent or children, e has no
\* component of any type (has_component is false, get_component is none),
\* get_parent(e) is none, and no entity has e as its parent.
C22_NewEntityIsBare ==
    [][\A e \in Issued' :
          (last'.op = "add_entity" /\ last'.ret = Some(e)) =>
             /\ components'[e.idx + 1] = EmptyAnyMap
             /\ \A ty \in CompTypes :
                   /\ has_component(ty, e)' = FALSE
                   /\ get_component(ty, e)' = None
             /\ get_parent(e)' = None
             /\ e \notin DOMAIN parents'
             /\ \A c \in DOMAIN parents' : parents'[c] # e
             /\ \A c \in EntityArgs : get_parent(c)' # Some(e)
      ]_vars

\* The last call was add_entity and returned an entity in the slot of an
\* entity that had a Position when a confirm_changes removed it; the new
\* entity has no component and no parent.
C22_Witness ==
    /\ last.op = "add_entity"
    /\ \E r \in reaped :
          /\ last.ret[1].idx = r.entity.idx
          /\ last.ret[1] # r.entity
          /\ r.components["Position"] # None
    /\ is_valid_entity(last.ret[1])
    /\ get_component("Position", last.ret[1]) = None
    /\ get_parent(last.ret[1]) = None

====
